---- MODULE Spec2Model ----
(***************************************************************************)
(* A model of rganalysis: the tag codec (rganalysis/common.py), RGTrack    *)
(* and RGTrackSet (rganalysis/__init__.py).                                *)
(*                                                                         *)
(* Numbers.  A Python float is modelled as a decimal number counted in     *)
(* ticks of 10^-7, so -6.004 dB is -60040000 and the peak 0.9000004 is     *)
(* 9000004.  A tag text is a record [form, val, dec]: the form of the      *)
(* text ("dB" for "<number> dB", "num" for a bare number, "junk" for any   *)
(* other text, "absent" when the tag does not exist), the number it        *)
(* denotes in ticks, and how many decimals it is written with.             *)
(***************************************************************************)
EXTENDS Integers, Sequences, FiniteSets, TLC

\* ------------------------------------------------------------------------
\* Bounds of the model
\* ------------------------------------------------------------------------
MaxTracks == 2      \* largest number of member tracks of the Track Set
MaxInput == 3       \* longest track sequence handed to MakeTrackSets

\* ------------------------------------------------------------------------
\* Python values
\* ------------------------------------------------------------------------
None == [t |-> "None", v |-> 0]
Float(x) == [t |-> "float", v |-> x]
ValueError == [t |-> "ValueError", v |-> 0]

\* ------------------------------------------------------------------------
\* Tag texts
\* ------------------------------------------------------------------------
ABSENT == [form |-> "absent", val |-> 0, dec |-> 0]
Junk == [form |-> "junk", val |-> 0, dec |-> 0]
DB(ticks) == [form |-> "dB", val |-> ticks, dec |-> 2]
Num(ticks, d) == [form |-> "num", val |-> ticks, dec |-> d]

\* x rounded to the nearest multiple of m, ties to the even multiple
RoundTo(x, m) ==
    LET r == x % m
        low == x - r
    IN  IF 2 * r < m THEN low
        ELSE IF 2 * r > m THEN low + m
        ELSE IF (low \div m) % 2 = 0 THEN low ELSE low + m

\* '{:.2f} dB'.format(gain)
format_gain(gain) == DB(RoundTo(gain, 100000))

\* '{:.6f}'.format(peak)
format_peak(peak) == Num(RoundTo(peak, 10), 6)

\* parse_gain that only tries float(gain)
parse_gain_bare_only(s) ==
    IF s.form = "num" THEN Float(s.val) ELSE ValueError

\* float(gain), else parse('{value:f} dB', gain), else ValueError
parse_gain(s) ==
    IF s.form = "num" THEN Float(s.val)
    ELSE IF s.form = "dB" THEN Float(s.val)
    ELSE ValueError

\* float(peak)
parse_peak(s) ==
    IF s.form = "num" THEN Float(s.val) ELSE ValueError

\* ------------------------------------------------------------------------
\* Tag names
\* ------------------------------------------------------------------------
TG == "replaygain_track_gain"
TP == "replaygain_track_peak"
AG == "replaygain_album_gain"
AP == "replaygain_album_peak"

rg_tags == {TG, TP, AG, AP, "replaygain_reference_loudness"}

\* the tag names a file of the model can hold: the four canonical names, one
\* name of the QuodLibet:: spelling, the misspelt peak name of an earlier
\* version, and one tag that has nothing to do with ReplayGain
QLTG == "QuodLibet::replaygain_track_gain"
TYPO == "replaypeak_track_peak"
TITLE == "title"
TagNames == {TG, TP, AG, AP, QLTG, TYPO, TITLE}

\* str.lower() on the tag names of the model
Lower(k) == IF k = QLTG THEN "quodlibet::replaygain_track_gain" ELSE k

\* ------------------------------------------------------------------------
\* RGTrack: accessors over the in-memory tags t of one track
\* ------------------------------------------------------------------------
\* a getter that lets the ValueError of the parser through
OrNone_raises(parsed) == parsed

\* except (KeyError, ValueError): return None
OrNone(parsed) == IF parsed = ValueError THEN None ELSE parsed

RGTrack_get_gain(t) ==
    IF t[TG] = ABSENT THEN None ELSE OrNone(parse_gain(t[TG]))

RGTrack_del_gain(t) ==
    IF t[TG] # ABSENT THEN [t EXCEPT ![TG] = ABSENT] ELSE t

RGTrack_set_gain(t, value) ==
    IF value = None THEN RGTrack_del_gain(t)
    ELSE [t EXCEPT ![TG] = format_gain(value.v)]

RGTrack_get_peak(t) ==
    IF t[TP] = ABSENT THEN None ELSE OrNone(parse_peak(t[TP]))

RGTrack_del_peak(t) ==
    IF t[TP] # ABSENT THEN [t EXCEPT ![TP] = ABSENT] ELSE t

RGTrack_set_peak(t, value) ==
    IF value = None THEN RGTrack_del_peak(t)
    ELSE [t EXCEPT ![TP] = format_peak(value.v)]

RGTrack_get_album_gain(t) ==
    IF t[AG] = ABSENT THEN None ELSE OrNone(parse_gain(t[AG]))

RGTrack_del_album_gain(t) ==
    IF t[AG] # ABSENT THEN [t EXCEPT ![AG] = ABSENT] ELSE t

\* value None runs "del self.gain", the deleter of the track gain
RGTrack_set_album_gain(t, value) ==
    IF value = None THEN RGTrack_del_gain(t)
    ELSE [t EXCEPT ![AG] = format_gain(value.v)]

RGTrack_get_album_peak(t) ==
    IF t[AP] = ABSENT THEN None ELSE OrNone(parse_peak(t[AP]))

RGTrack_del_album_peak(t) ==
    IF t[AP] # ABSENT THEN [t EXCEPT ![AP] = ABSENT] ELSE t

\* value None runs "del self.peak", the deleter of the track peak
RGTrack_set_album_peak(t, value) ==
    IF value = None THEN RGTrack_del_peak(t)
    ELSE [t EXCEPT ![AP] = format_peak(value.v)]

RGTrack_has_valid_rgdata(t) ==
    RGTrack_get_gain(t) # None /\ RGTrack_get_peak(t) # None

\* the lower-cased spellings cleanup_tags deletes
tags_to_clean ==
    rg_tags
    \cup {"quodlibet::replaygain_track_gain", "quodlibet::replaygain_track_peak",
          "quodlibet::replaygain_album_gain", "quodlibet::replaygain_album_peak",
          "quodlibet::replaygain_reference_loudness"}
    \cup {"txxx:replaygain_track_gain", "txxx:replaygain_track_peak",
          "txxx:replaygain_album_gain", "txxx:replaygain_album_peak",
          "txxx:replaygain_reference_loudness"}
    \cup {"rva2:track", "rva2:album"}
    \cup {"replaypeak_track_peak", "replaypeak_album_peak"}

\* cleanup_tags with the tag names compared as they are spelt
cleanup_tags_case_sensitive(d) ==
    [k \in DOMAIN d |-> IF k \in tags_to_clean THEN ABSENT ELSE d[k]]

\* RGTrack.cleanup_tags on the stored tags d of the file: the stored tags
\* afterwards; the track's in-memory tags are re-read from them
cleanup_tags(d) ==
    [k \in DOMAIN d |-> IF Lower(k) \in tags_to_clean THEN ABSENT ELSE d[k]]

ID3Type == "mutagen.mp3.EasyMP3"

\* fixup_ID3 that honours an RVA2 frame of any channel
fixup_ID3_any_channel(ftype, d) ==
    IF ftype # ID3Type THEN d
    ELSE LET has(k) == k \in DOMAIN d /\ d[k] # ABSENT
             track_rva2 == has("RVA2:track")
             album_rva2 == has("RVA2:album")
         IN  [k \in DOMAIN d |->
                IF track_rva2 /\ k = "TXXX:replaygain_track_peak"
                  THEN format_peak(d["RVA2:track"].peak)
                ELSE IF track_rva2 /\ k = "TXXX:replaygain_track_gain"
                  THEN format_gain(d["RVA2:track"].gain)
                ELSE IF album_rva2 /\ k = "TXXX:replaygain_album_peak"
                  THEN format_peak(d["RVA2:album"].peak)
                ELSE IF album_rva2 /\ k = "TXXX:replaygain_album_gain"
                  THEN format_gain(d["RVA2:album"].gain)
                ELSE d[k]]

\* fixup_ID3 that removes the RVA2 frames it has copied
fixup_ID3_moves(ftype, d) ==
    IF ftype # ID3Type THEN d
    ELSE [k \in DOMAIN fixup_ID3_any_channel(ftype, d) |->
            IF k \in {"RVA2:track", "RVA2:album"} THEN ABSENT
            ELSE fixup_ID3_any_channel(ftype, d)[k]]

\* fixup_ID3 on the stored tags d of a file of type ftype
fixup_ID3(ftype, d) ==
    IF ftype # ID3Type THEN d
    ELSE LET has(k) == k \in DOMAIN d /\ d[k] # ABSENT
             track_rva2 == has("RVA2:track") /\ d["RVA2:track"].channel = 1
             album_rva2 == has("RVA2:album") /\ d["RVA2:album"].channel = 1
         IN  [k \in DOMAIN d |->
                IF track_rva2 /\ k = "TXXX:replaygain_track_peak"
                  THEN format_peak(d["RVA2:track"].peak)
                ELSE IF track_rva2 /\ k = "TXXX:replaygain_track_gain"
                  THEN format_gain(d["RVA2:track"].gain)
                ELSE IF album_rva2 /\ k = "TXXX:replaygain_album_peak"
                  THEN format_peak(d["RVA2:album"].peak)
                ELSE IF album_rva2 /\ k = "TXXX:replaygain_album_gain"
                  THEN format_gain(d["RVA2:album"].gain)
                ELSE d[k]]

\* RGTrack.save that writes the values first and runs cleanup_tags last
RGTrack_save_cleanup_last(t, d, ftype) ==
    [mem |-> cleanup_tags(t), disk |-> fixup_ID3(ftype, cleanup_tags(t))]

\* RGTrack.save that restores only the track values after the cleanup
RGTrack_save_track_only(t, d, ftype) ==
    LET tgain == RGTrack_get_gain(t)
        tpeak == RGTrack_get_peak(t)
        cleaned == cleanup_tags(d)
        t1 == RGTrack_set_gain(cleaned, tgain)
        t2 == RGTrack_set_peak(t1, tpeak)
    IN  [mem |-> t2, disk |-> fixup_ID3(ftype, t2)]

\* RGTrack.save(cleanup=True, fixup_id3=True) of a track with in-memory tags
\* t and stored tags d: the in-memory and the stored tags afterwards
RGTrack_save(t, d, ftype) ==
    LET tgain == RGTrack_get_gain(t)
        tpeak == RGTrack_get_peak(t)
        again == RGTrack_get_album_gain(t)
        apeak == RGTrack_get_album_peak(t)
        cleaned == cleanup_tags(d)
        t1 == RGTrack_set_gain(cleaned, tgain)
        t2 == RGTrack_set_peak(t1, tpeak)
        t3 == RGTrack_set_album_gain(t2, again)
        t4 == RGTrack_set_album_peak(t3, apeak)
    IN  [mem |-> t4, disk |-> fixup_ID3(ftype, t4)]

\* RGTrackDryRun.save that saves as RGTrack.save does
RGTrackDryRun_save_writes(t, d, ftype) == RGTrack_save(t, d, ftype)

\* RGTrackDryRun.save: nothing happens
RGTrackDryRun_save(t, d, ftype) == [mem |-> t, disk |-> d]

\* RGTrack.cleanup_tags that does not open the track again
RGTrack_cleanup_tags_keeps_edits(t, d) ==
    [mem |-> t, disk |-> cleanup_tags(d)]

\* RGTrack.cleanup_tags of a track with in-memory tags t and stored tags d:
\* the stored tags are cleaned and read back
RGTrack_cleanup_tags(t, d) ==
    [mem |-> cleanup_tags(d), disk |-> cleanup_tags(d)]

\* RGTrackDryRun.cleanup_tags: nothing happens
RGTrackDryRun_cleanup_tags(t, d) == [mem |-> t, disk |-> d]

\* ------------------------------------------------------------------------
\* State of one Track Set and of the files it is made of
\* ------------------------------------------------------------------------
VARIABLES
    disk,       \* disk[f][k]: the text stored in file f under tag name k
    mem,        \* mem[f][k]: the same in the tags RGTrack f holds in memory
    members,    \* the file names of RGTrackSet.RGTracks
    gain_type,  \* RGTrackSet.gain_type
    album,      \* the album title of the members ("" when they have none)
    dirfiles,   \* the other file names that exist in the set's directory
    dry,        \* the tracks are RGTrackDryRun objects
    last,       \* what the last do_gain call was given and what it did
    tracks,     \* the track sequence given to MakeTrackSets
    track_sets, \* the Track Sets MakeTrackSets has yielded, in order
    made,       \* MakeTrackSets has run
    orchestrator, \* main(): its arguments, its progress and its task queue
    proc,       \* proc[s]: how far the handling of Track Set s has come
    worker,     \* worker[w]: the Track Set worker w is handling, or 0
    sched,      \* the Track Set whose process is running
    disk0       \* the stored tags when main() started

vars == <<disk, mem, members, gain_type, album, dirfiles, dry, last,
          tracks, track_sets, made, orchestrator, proc, worker, sched, disk0>>

\* the variables of main()
batch_vars == <<orchestrator, proc, worker, sched, disk0>>

\* main() is not running
NoBatch ==
    /\ orchestrator = [state |-> "none"]
    /\ proc = <<>>
    /\ worker = <<>>
    /\ sched = [cur |-> 0, stepped |-> FALSE]
    /\ disk0 = <<>>

Files == 1..MaxTracks

\* the type of the files of the Track Set
FileType == "mutagen.flac.FLAC"

\* RGTrack.track_set_key of the members:
\* (directory, type, album, album artist, album id, disc number)
track_set_key == <<"/music/Album", FileType, album, "Band", "", "">>

\* "a is b" where a is a tuple newly made by a slice: identity needs
\* equality, and a new object is identical to no other object
PyIs(a, b) == a = b /\ FALSE

\* is_multitrack_album with the member count compared with < instead of <=
is_multitrack_album_off_by_one ==
    IF Cardinality(members) < 1
       \/ PyIs(SubSeq(track_set_key, 1, 1), <<"", "">>)
    THEN FALSE ELSE TRUE

\* RGTrackSet.is_multitrack_album
is_multitrack_album ==
    IF Cardinality(members) <= 1
       \/ PyIs(SubSeq(track_set_key, 1, 1), <<"", "">>)
    THEN FALSE ELSE TRUE

\* the signal file names without _TRACKGAIN
track_gain_signal_filenames_short == {"TRACKGAIN", ".TRACKGAIN"}

track_gain_signal_filenames == {"TRACKGAIN", ".TRACKGAIN", "_TRACKGAIN"}

\* RGTrackSet.want_album_gain for gain type gt
want_album_gain(gt) ==
    IF is_multitrack_album
    THEN CASE gt = "album" -> TRUE
           [] gt = "track" -> FALSE
           [] gt = "auto" ->
                ~ \E f \in track_gain_signal_filenames : f \in dirfiles
    ELSE FALSE

\* _get_common_value_for_all_tracks without the test for differing values
get_common_value_unchecked(values) == CHOOSE v \in values : TRUE

\* RGTrackSet._get_common_value_for_all_tracks: values is the set of the
\* results of func on the tracks
get_common_value_for_all_tracks(values) ==
    IF Cardinality(values) > 1 THEN ValueError
    ELSE CHOOSE v \in values : TRUE

\* RGTrackSet.gain getter over in-memory tags m
RGTrackSet_get_gain(m) ==
    OrNone(get_common_value_for_all_tracks(
        {RGTrack_get_album_gain(m[f]) : f \in members}))

\* RGTrackSet.peak getter over in-memory tags m
RGTrackSet_get_peak(m) ==
    OrNone(get_common_value_for_all_tracks(
        {RGTrack_get_album_peak(m[f]) : f \in members}))

\* RGTrackSet.has_valid_rgdata over in-memory tags m, for gain type gt
has_valid_rgdata(m, gt) ==
    IF \E f \in members : ~ RGTrack_has_valid_rgdata(m[f]) THEN FALSE
    ELSE IF want_album_gain(gt)
         THEN RGTrackSet_get_gain(m) # None /\ RGTrackSet_get_peak(m) # None
         ELSE RGTrackSet_get_gain(m) = None /\ RGTrackSet_get_peak(m) = None

\* ------------------------------------------------------------------------
\* The gain backend
\* ------------------------------------------------------------------------
\* The analyses a backend can return for the files: analysis a gives file f
\* the track gain -6.004, -7.5, ... dB (one dB less when a = 1) and the
\* track peak 0.9000004, 0.8000004, ..., and gives every file the same
\* album gain and album peak.
Analyses == {0, 1}

compute_gain(a) ==
    [f \in members |->
        [replaygain_track_gain |-> Float(0 - (60040000 + 14960000 * (f - 1) + 10000000 * a)),
         replaygain_track_peak |-> Float(9000004 - 1000000 * (f - 1) - 500000 * a),
         replaygain_album_gain |-> Float(0 - (67540000 + 10000000 * a)),
         replaygain_album_peak |-> Float(9000004 - 500000 * a)]]

\* ------------------------------------------------------------------------
\* RGTrackSet.do_gain and RGTrackSet.save
\* ------------------------------------------------------------------------
\* RGTrackSet.gain setter / deleter over in-memory tags m
RGTrackSet_set_gain(m, value) ==
    [f \in DOMAIN m |->
        IF f \in members THEN RGTrack_set_album_gain(m[f], value) ELSE m[f]]

RGTrackSet_del_gain(m) ==
    [f \in DOMAIN m |->
        IF f \in members THEN RGTrack_del_album_gain(m[f]) ELSE m[f]]

\* RGTrackSet.peak setter / deleter over in-memory tags m
RGTrackSet_set_peak(m, value) ==
    [f \in DOMAIN m |->
        IF f \in members THEN RGTrack_set_album_peak(m[f], value) ELSE m[f]]

RGTrackSet_del_peak(m) ==
    [f \in DOMAIN m |->
        IF f \in members THEN RGTrack_del_album_peak(m[f]) ELSE m[f]]

\* RGTrackSet.save over in-memory tags m and stored tags d: every member
\* track is saved; the result is the pair of the tags afterwards
RGTrackSet_save(m, d) ==
    LET saved == [f \in DOMAIN m |->
                    IF f \notin members THEN [mem |-> m[f], disk |-> d[f]]
                    ELSE IF dry THEN RGTrackDryRun_save(m[f], d[f], FileType)
                    ELSE RGTrack_save(m[f], d[f], FileType)]
    IN  [mem |-> [f \in DOMAIN m |-> saved[f].mem],
         disk |-> [f \in DOMAIN m |-> saved[f].disk]]

\* the skip test taken before the gain_type argument is stored
do_gain_skips_stale(force, gt) == has_valid_rgdata(mem, gain_type) /\ ~ force

\* the skip test of do_gain: the set is valid and force is off
do_gain_skips(force, gt) == has_valid_rgdata(mem, gt) /\ ~ force

\* the in-memory tags after do_gain has set the values of rginfo
do_gain_set_values(m, gt, rginfo) ==
    LET m1 == [f \in DOMAIN m |->
                 IF f \in members
                 THEN RGTrack_set_peak(
                        RGTrack_set_gain(m[f], rginfo[f].replaygain_track_gain),
                        rginfo[f].replaygain_track_peak)
                 ELSE m[f]]
        album_rginfo == rginfo[CHOOSE f \in members : TRUE]
    IN  IF want_album_gain(gt)
        THEN RGTrackSet_set_peak(
                RGTrackSet_set_gain(m1, album_rginfo.replaygain_album_gain),
                album_rginfo.replaygain_album_peak)
        ELSE RGTrackSet_del_peak(RGTrackSet_del_gain(m1))

\* RGTrackSet.do_gain(force, gain_type): gain_type is "None" when the
\* argument is left out; when the backend is called it returns one of the
\* analyses or raises
do_gain(force, gain_type_arg) ==
    LET gt == IF gain_type_arg # "None" THEN gain_type_arg ELSE gain_type
    IN  /\ gain_type' = gt
        /\ IF do_gain_skips(force, gt)
           THEN /\ last' = [outcome |-> "skipped", a |-> 0]
                /\ UNCHANGED <<mem, disk>>
           ELSE \/ /\ last' = [outcome |-> "raised", a |-> 0]
                   /\ UNCHANGED <<mem, disk>>
                \/ \E a \in Analyses :
                     LET m2 == do_gain_set_values(mem, gt, compute_gain(a))
                         saved == RGTrackSet_save(m2, disk)
                     IN  /\ mem' = saved.mem
                         /\ disk' = saved.disk
                         /\ last' = [outcome |-> "analysed", a |-> a]
        /\ UNCHANGED <<members, album, dirfiles, dry, tracks, track_sets, made>>
        /\ UNCHANGED batch_vars

GainTypes == {"album", "track", "auto"}

DoGain ==
    \E force \in BOOLEAN, g \in GainTypes \cup {"None"} : do_gain(force, g)

\* A new pass over the same files: RGTrack.__init__ reads the stored tags
\* and RGTrackSet.__init__ starts with gain_type "auto"
NewPass ==
    /\ last.outcome # "none"
    /\ mem' = disk
    /\ gain_type' = "auto"
    /\ last' = [outcome |-> "none", a |-> 0]
    /\ UNCHANGED <<disk, members, album, dirfiles, dry, tracks, track_sets, made>>
    /\ UNCHANGED batch_vars

\* ------------------------------------------------------------------------
\* Initial states
\* ------------------------------------------------------------------------
Tags(tg, tp, ag, ap, ql, typo) ==
    [k \in TagNames |->
        CASE k = TG -> tg [] k = TP -> tp [] k = AG -> ag [] k = AP -> ap
          [] k = QLTG -> ql [] k = TYPO -> typo [] k = TITLE -> Junk]

NoTags == [k \in TagNames |-> ABSENT]

\* texts found in files before the run; none is a text the analyses produce
OldGain == DB(0 - 50000000)          \* "-5.00 dB"
OldPeak == Num(5000000, 6)           \* "0.500000"
BareGain == Num(0 - 52500000, 3)     \* "-5.250", a bare number
AlbumX == DB(0 - 40000000)           \* "-4.00 dB"
AlbumY == DB(0 - 30000000)           \* "-3.00 dB"
PeakX == Num(6000000, 6)             \* "0.600000"
PeakY == Num(7000000, 6)             \* "0.700000"

\* the tags a file can hold before the run
InitialTags ==
    { Tags(ABSENT, ABSENT, ABSENT, ABSENT, ABSENT, ABSENT),
      Tags(OldGain, OldPeak, ABSENT, ABSENT, ABSENT, ABSENT),
      Tags(OldGain, OldPeak, AlbumX, PeakX, ABSENT, ABSENT),
      Tags(OldGain, OldPeak, AlbumY, PeakY, ABSENT, ABSENT),
      Tags(OldGain, OldPeak, AlbumX, ABSENT, ABSENT, ABSENT),
      Tags(OldGain, OldPeak, Junk, ABSENT, ABSENT, ABSENT),
      Tags(OldGain, ABSENT, AlbumX, PeakX, ABSENT, ABSENT),
      Tags(Junk, OldPeak, AlbumX, PeakX, ABSENT, ABSENT),
      Tags(BareGain, OldPeak, AlbumX, PeakX, OldGain, OldPeak) }

DirListings ==
    {{}, {"TRACKGAIN"}, {".TRACKGAIN"}, {"_TRACKGAIN", "cover.jpg"}}

\* the album title of the members with the listing of their directory
Directories ==
    {<<"Album", d>> : d \in DirListings} \cup {<<"", {"cover.jpg"}>>}

Init ==
    /\ members \in {1..n : n \in 1..MaxTracks}
    /\ disk \in [Files -> InitialTags \cup {NoTags}]
    /\ \A f \in Files : disk[f] = NoTags <=> f \notin members
    /\ mem = disk
    /\ gain_type = "auto"
    /\ \E d \in Directories : album = d[1] /\ dirfiles = d[2]
    /\ dry = FALSE
    /\ last = [outcome |-> "none", a |-> 0]
    /\ tracks = <<>>
    /\ track_sets = <<>>
    /\ made = FALSE
    /\ NoBatch

Next == DoGain \/ NewPass

Spec == Init /\ [][Next]_vars

\* ------------------------------------------------------------------------
\* RGTrackSet.MakeTrackSets
\* ------------------------------------------------------------------------
\* A track given to MakeTrackSets is a record: its file name, its directory
\* (the dirname of the file name), its album title and whether the backend
\* supports the file.  Directories and album titles are numbered in their
\* sort order; album 0 is the empty title.
Dirs == 1..2
Albums == 0..2

\* RGTrack.track_set_key of track tr:
\* (directory, type, album, album artist, album id, disc number)
RGTrack_track_set_key(tr) == <<tr.directory, 1, tr.album, 0, 0, 0>>

\* the order of Python tuples: a sorts before b
KeyLess(a, b) ==
    \E i \in 1..Len(a) :
        /\ a[i] < b[i]
        /\ \A j \in 1..(i - 1) : a[j] = b[j]

\* sorted(keys)
RECURSIVE sorted(_)
sorted(keys) ==
    IF keys = {} THEN <<>>
    ELSE LET least == CHOOSE k \in keys :
                        \A o \in keys : o = k \/ KeyLess(k, o)
         IN  <<least>> \o sorted(keys \ {least})

\* RGTrackSet.__init__ without the test of the keys
RGTrackSet_init_unchecked(trs) ==
    LET RGTracks == {trs[i] : i \in DOMAIN trs}
    IN  IF Cardinality(RGTracks) < 1 THEN ValueError
        ELSE [RGTracks |-> RGTracks, gain_type |-> "auto"]

\* RGTrackSet.__init__ on a list of tracks: the new Track Set, or ValueError
RGTrackSet_init(trs) ==
    LET RGTracks == {trs[i] : i \in DOMAIN trs}
        keys == {RGTrack_track_set_key(t) : t \in RGTracks}
    IN  IF Cardinality(RGTracks) < 1 THEN ValueError
        ELSE IF Cardinality(keys) # 1 THEN ValueError
        ELSE [RGTracks |-> RGTracks, gain_type |-> "auto"]

\* itertools.groupby by directory: the runs of consecutive tracks of one
\* directory
RECURSIVE RunLength(_, _)
RunLength(trs, d) ==
    IF trs = <<>> \/ trs[1].directory # d THEN 0
    ELSE 1 + RunLength(Tail(trs), d)

RECURSIVE groupby(_)
groupby(trs) ==
    IF trs = <<>> THEN <<>>
    ELSE LET n == RunLength(trs, trs[1].directory)
         IN  <<SubSeq(trs, 1, n)>> \o groupby(SubSeq(trs, n + 1, Len(trs)))

\* one Track Set made of all the tracks of a directory run
TrackSetsOfRun_one_set(tracks_in_dir) == <<RGTrackSet_init(tracks_in_dir)>>

\* the Track Sets of one directory run, in ascending key order
TrackSetsOfRun(tracks_in_dir) ==
    LET keys == {RGTrack_track_set_key(tracks_in_dir[i]) :
                    i \in DOMAIN tracks_in_dir}
        bucket(k) == SelectSeq(tracks_in_dir,
                               LAMBDA tr : RGTrack_track_set_key(tr) = k)
        order == sorted(keys)
    IN  [i \in DOMAIN order |-> RGTrackSet_init(bucket(order[i]))]

RECURSIVE Flatten(_)
Flatten(seqs) ==
    IF seqs = <<>> THEN <<>> ELSE Head(seqs) \o Flatten(Tail(seqs))

\* MakeTrackSets without the supports_file filter
MakeTrackSets_unfiltered(trs) ==
    LET tracks_by_dir == groupby(trs)
    IN  Flatten([i \in DOMAIN tracks_by_dir |->
                    TrackSetsOfRun(tracks_by_dir[i])])

\* RGTrackSet.MakeTrackSets(tracks, gain_backend), the whole sequence it
\* yields
MakeTrackSets(trs) ==
    LET supported == SelectSeq(trs, LAMBDA tr : tr.supported)
        tracks_by_dir == groupby(supported)
    IN  Flatten([i \in DOMAIN tracks_by_dir |->
                    TrackSetsOfRun(tracks_by_dir[i])])

MakeTrackSetsCall ==
    /\ ~ made
    /\ track_sets' = MakeTrackSets(tracks)
    /\ made' = TRUE
    /\ UNCHANGED <<disk, mem, members, gain_type, album, dirfiles, dry, last,
                   tracks>>
    /\ UNCHANGED batch_vars

\* the track at position i of the input is the file named i
TrackInputs ==
    UNION {
        {[i \in 1..n |-> [filename |-> i, directory |-> a[i].directory,
                          album |-> a[i].album, supported |-> a[i].supported]]
            : a \in [1..n -> [directory : Dirs, album : Albums,
                              supported : BOOLEAN]]}
        : n \in 0..MaxInput}

InitGroup ==
    /\ tracks \in TrackInputs
    /\ track_sets = <<>>
    /\ made = FALSE
    /\ NoBatch
    /\ members = {}
    /\ disk = [f \in Files |-> NoTags]
    /\ mem = disk
    /\ gain_type = "auto"
    /\ album = ""
    /\ dirfiles = {}
    /\ dry = FALSE
    /\ last = [outcome |-> "none", a |-> 0]

SpecGroup == InitGroup /\ [][MakeTrackSetsCall]_vars

\* tracks of the same directory are contiguous in the input
Contiguous(trs) ==
    \A i, j, k \in DOMAIN trs :
        (i < j /\ j < k /\ trs[i].directory = trs[k].directory)
            => trs[j].directory = trs[i].directory

\* the positions of the emitted Track Sets that track tr is a member of
SetsOf(tr) == {j \in DOMAIN track_sets : tr \in track_sets[j].RGTracks}

\* C1: on an input in which the tracks of one directory are contiguous,
\* MakeTrackSets partitions the supported tracks: a supported track is a
\* member of exactly one emitted Track Set, an unsupported one of none, and
\* two supported tracks share a Track Set exactly when their keys are equal.
C1_GroupingPartition ==
    (made /\ Contiguous(tracks)) =>
        /\ \A j \in DOMAIN track_sets : track_sets[j] # ValueError
        /\ \A i \in DOMAIN tracks :
              Cardinality(SetsOf(tracks[i])) =
                 IF tracks[i].supported THEN 1 ELSE 0
        /\ \A i, k \in DOMAIN tracks :
              (tracks[i].supported /\ tracks[k].supported) =>
                 ((SetsOf(tracks[i]) \cap SetsOf(tracks[k]) # {})
                    <=> (RGTrack_track_set_key(tracks[i])
                           = RGTrack_track_set_key(tracks[k])))

\* a contiguous input of three tracks, one of them unsupported, two of them
\* with different keys in one directory, has been grouped into two sets
C1_Witness ==
    /\ made /\ Contiguous(tracks)
    /\ Len(tracks) = 3
    /\ \E i \in DOMAIN tracks : ~ tracks[i].supported
    /\ \E i, k \in DOMAIN tracks :
          /\ tracks[i].supported /\ tracks[k].supported
          /\ tracks[i].directory = tracks[k].directory
          /\ tracks[i].album # tracks[k].album
    /\ Len(track_sets) = 2

\* ------------------------------------------------------------------------
\* Properties of the Track Set
\* ------------------------------------------------------------------------
\* the do_gain call that led to this state returned (it did not raise)
Returned == last.outcome \in {"skipped", "analysed"}

\* every member has a track gain and a track peak
AllTrackData(m) ==
    \A f \in members :
        RGTrack_get_gain(m[f]) # None /\ RGTrack_get_peak(m[f]) # None

\* the members agree on one album gain / album peak value
AgreedAlbumGain(m) ==
    \A f, g \in members :
        /\ RGTrack_get_album_gain(m[f]) # None
        /\ RGTrack_get_album_gain(m[f]) = RGTrack_get_album_gain(m[g])

AgreedAlbumPeak(m) ==
    \A f, g \in members :
        /\ RGTrack_get_album_peak(m[f]) # None
        /\ RGTrack_get_album_peak(m[f]) = RGTrack_get_album_peak(m[g])

\* no member has an album gain / album peak value
NoAlbumGain(m) == \A f \in members : RGTrack_get_album_gain(m[f]) = None
NoAlbumPeak(m) == \A f \in members : RGTrack_get_album_peak(m[f]) = None

\* members hold differing album gain / album peak values
DisagreeAlbumGain(m) ==
    \E f, g \in members :
        RGTrack_get_album_gain(m[f]) # RGTrack_get_album_gain(m[g])

DisagreeAlbumPeak(m) ==
    \E f, g \in members :
        RGTrack_get_album_peak(m[f]) # RGTrack_get_album_peak(m[g])

\* C2: has_valid_rgdata() is true exactly when every member has track gain
\* and track peak and the album values are what want_album_gain() asks for:
\* one value agreed by all members when album gain is wanted, absent on
\* every member when it is not.
C2_ValidIffExact ==
    has_valid_rgdata(mem, gain_type) <=>
        /\ AllTrackData(mem)
        /\ IF want_album_gain(gain_type)
           THEN AgreedAlbumGain(mem) /\ AgreedAlbumPeak(mem)
           ELSE NoAlbumGain(mem) /\ NoAlbumPeak(mem)

C4_NoAlbumTitleNoAlbumGain ==
    (Cardinality(members) >= 2 /\ album = "") =>
        \A gt \in GainTypes : ~ want_album_gain(gt)

TrackGainText(a, f) == format_gain(compute_gain(a)[f].replaygain_track_gain.v)
TrackPeakText(a, f) == format_peak(compute_gain(a)[f].replaygain_track_peak.v)
AlbumGainText(a, f) == format_gain(compute_gain(a)[f].replaygain_album_gain.v)
AlbumPeakText(a, f) == format_peak(compute_gain(a)[f].replaygain_album_peak.v)

\* C7: do_gain with force off on a set that has valid data (under the gain
\* type the call applies) does not call compute_gain and leaves the
\* in-memory and the stored tags of every member as they were.
C7_ValidSetIsSkipped ==
    [][ ((\E g \in GainTypes \cup {"None"} : do_gain(FALSE, g))
          /\ has_valid_rgdata(mem, gain_type'))
        => (mem' = mem /\ disk' = disk /\ last'.outcome = "skipped") ]_vars

\* a do_gain was skipped on a set that holds the texts an earlier do_gain
\* of the same pass stored
C7_Witness ==
    /\ last.outcome = "skipped"
    /\ \E a \in Analyses :
         \A f \in members :
            disk[f][TG] = TrackGainText(a, f) /\ mem[f][TG] = TrackGainText(a, f)

\* C8: after do_gain has analysed a set of two or more members in album
\* mode, every member's stored track gain and peak are the canonical texts
\* of that file's computed values, every member's stored album gain and peak
\* are the canonical texts of the shared album values, and
\* has_valid_rgdata() is true.
C8_AlbumModeWritten ==
    (last.outcome = "analysed" /\ Cardinality(members) >= 2
        /\ want_album_gain(gain_type)) =>
        /\ \A f \in members :
              /\ disk[f][TG] = TrackGainText(last.a, f)
              /\ disk[f][TP] = TrackPeakText(last.a, f)
              /\ disk[f][AG] = AlbumGainText(last.a, f)
              /\ disk[f][AP] = AlbumPeakText(last.a, f)
        /\ \A f, g \in members :
              disk[f][AG] = disk[g][AG] /\ disk[f][AP] = disk[g][AP]
        /\ has_valid_rgdata(mem, gain_type)
        /\ has_valid_rgdata(disk, gain_type)

\* a set of two members was analysed in album mode and the first file holds
\* "-6.00 dB", the second "-7.50 dB", both the album gain "-6.75 dB"
C8_Witness ==
    /\ last.outcome = "analysed" /\ last.a = 0
    /\ Cardinality(members) = 2
    /\ want_album_gain(gain_type)
    /\ disk[1][TG] = DB(0 - 60000000)
    /\ disk[2][TG] = DB(0 - 75000000)
    /\ disk[1][AG] = DB(0 - 67500000) /\ disk[2][AG] = DB(0 - 67500000)
    /\ disk[1][AP] = Num(9000000, 6)

\* C9: after do_gain with gain type "track" has returned, no member file
\* holds an album gain or an album peak.
C9_TrackModeErasesAlbum ==
    (Returned /\ gain_type = "track") =>
        /\ NoAlbumGain(disk) /\ NoAlbumPeak(disk)

\* C10: after do_gain has analysed a set, in album or in track mode, every
\* member's stored track gain and track peak are present and are the
\* canonical texts of the values compute_gain returned for that file.
C10_TrackValuesWritten ==
    last.outcome = "analysed" =>
        \A f \in members :
            /\ disk[f][TG] = TrackGainText(last.a, f)
            /\ disk[f][TP] = TrackPeakText(last.a, f)

\* ------------------------------------------------------------------------
\* One RGTrack on its own: the accessors, cleanup_tags and save
\* ------------------------------------------------------------------------
\* the four properties of RGTrack and the tag each of them is named after
Accessors == {"gain", "peak", "album_gain", "album_peak"}

TagOf(acc) ==
    CASE acc = "gain" -> TG [] acc = "peak" -> TP
      [] acc = "album_gain" -> AG [] acc = "album_peak" -> AP

\* the getter, the setter and the deleter of property acc
RGTrack_get(acc, t) ==
    CASE acc = "gain" -> RGTrack_get_gain(t)
      [] acc = "peak" -> RGTrack_get_peak(t)
      [] acc = "album_gain" -> RGTrack_get_album_gain(t)
      [] acc = "album_peak" -> RGTrack_get_album_peak(t)

RGTrack_set(acc, t, value) ==
    CASE acc = "gain" -> RGTrack_set_gain(t, value)
      [] acc = "peak" -> RGTrack_set_peak(t, value)
      [] acc = "album_gain" -> RGTrack_set_album_gain(t, value)
      [] acc = "album_peak" -> RGTrack_set_album_peak(t, value)

RGTrack_del(acc, t) ==
    CASE acc = "gain" -> RGTrack_del_gain(t)
      [] acc = "peak" -> RGTrack_del_peak(t)
      [] acc = "album_gain" -> RGTrack_del_album_gain(t)
      [] acc = "album_peak" -> RGTrack_del_album_peak(t)

\* the canonical text of value under property acc
Canonical(acc, value) ==
    IF acc \in {"gain", "album_gain"} THEN format_gain(value.v)
    ELSE format_peak(value.v)

\* the values assigned to the properties: None, the gain -6.004 dB for the
\* gains and the peak 0.9000004 for the peaks
NewGain == Float(0 - 60040000)
NewPeak == Float(9000004)
AssignedValues(acc) ==
    IF acc \in {"gain", "album_gain"} THEN {None, NewGain} ELSE {None, NewPeak}

\* the track of the single-track specification is file 1
TheTrack == 1

\* the stored tags d hold a spelling other than the four canonical names
HasLegacyTag(d) ==
    \E k \in DOMAIN d :
        Lower(k) \in tags_to_clean /\ k \notin {TG, TP, AG, AP} /\ d[k] # ABSENT

\* track.<acc> = value
SetAccessor(acc, value) ==
    /\ mem' = [mem EXCEPT ![TheTrack] = RGTrack_set(acc, mem[TheTrack], value)]
    /\ last' = [outcome |-> "set", a |-> 0, acc |-> acc, value |-> value,
                legacy |-> HasLegacyTag(disk[TheTrack])]
    /\ UNCHANGED <<disk, members, gain_type, album, dirfiles, dry, tracks,
                   track_sets, made>>
    /\ UNCHANGED batch_vars

\* del track.<acc>
DelAccessor(acc) ==
    /\ mem' = [mem EXCEPT ![TheTrack] = RGTrack_del(acc, mem[TheTrack])]
    /\ last' = [outcome |-> "del", a |-> 0, acc |-> acc, value |-> None,
                legacy |-> HasLegacyTag(disk[TheTrack])]
    /\ UNCHANGED <<disk, members, gain_type, album, dirfiles, dry, tracks,
                   track_sets, made>>
    /\ UNCHANGED batch_vars

\* track.cleanup_tags(): the stored tags are cleaned and the track is
\* re-opened, so that the in-memory tags are the stored ones
CleanupTagsCall ==
    LET cleaned == RGTrack_cleanup_tags(mem[TheTrack], disk[TheTrack])
    IN  /\ disk' = [disk EXCEPT ![TheTrack] = cleaned.disk]
        /\ mem' = [mem EXCEPT ![TheTrack] = cleaned.mem]
        /\ last' = [outcome |-> "cleaned", a |-> 0, acc |-> "none",
                    value |-> None, legacy |-> HasLegacyTag(disk[TheTrack])]
        /\ UNCHANGED <<members, gain_type, album, dirfiles, dry, tracks,
                       track_sets, made>>
        /\ UNCHANGED batch_vars

\* track.save()
SaveCall ==
    LET saved == RGTrack_save(mem[TheTrack], disk[TheTrack], FileType)
    IN  /\ mem' = [mem EXCEPT ![TheTrack] = saved.mem]
        /\ disk' = [disk EXCEPT ![TheTrack] = saved.disk]
        /\ last' = [outcome |-> "saved", a |-> 0, acc |-> "none",
                    value |-> None, legacy |-> HasLegacyTag(disk[TheTrack])]
        /\ UNCHANGED <<members, gain_type, album, dirfiles, dry, tracks,
                       track_sets, made>>
        /\ UNCHANGED batch_vars

\* the tags the single track can hold before the run: those of InitialTags
\* and tags whose peaks hold text that is no number ("n/a", "-4.00 dB")
TrackTags ==
    InitialTags \cup {Tags(OldGain, Junk, AlbumX, AlbumX, ABSENT, ABSENT)}

InitTrack ==
    /\ members = {TheTrack}
    /\ disk \in [Files -> TrackTags \cup {NoTags}]
    /\ \A f \in Files : disk[f] = NoTags <=> f # TheTrack
    /\ mem = disk
    /\ gain_type = "auto"
    /\ album = "Album"
    /\ dirfiles = {}
    /\ dry = FALSE
    /\ last = [outcome |-> "none", a |-> 0, acc |-> "none", value |-> None,
               legacy |-> FALSE]
    /\ tracks = <<>>
    /\ track_sets = <<>>
    /\ made = FALSE
    /\ NoBatch

NextTrack ==
    \/ \E acc \in Accessors : \E value \in AssignedValues(acc) :
          SetAccessor(acc, value)
    \/ \E acc \in Accessors : DelAccessor(acc)
    \/ CleanupTagsCall
    \/ SaveCall

SpecTrack == InitTrack /\ [][NextTrack]_vars

\* C11: assigning None to one of the four properties of a track removes the
\* tag the property is named after and changes no other tag; assigning a
\* number stores its canonical text under the property's own tag and changes
\* no other tag.
C11_SetterFrame ==
    [][ \A acc \in Accessors : \A value \in AssignedValues(acc) :
          SetAccessor(acc, value) =>
             mem'[TheTrack] =
                [mem[TheTrack] EXCEPT ![TagOf(acc)] =
                    IF value = None THEN ABSENT ELSE Canonical(acc, value)]
      ]_vars

\* the text this save writes under canonical tag name k: the canonical text
\* of the value the accessor returned before the save
WrittenBySave(t, k) ==
    LET acc == CHOOSE a \in Accessors : TagOf(a) = k
    IN  IF RGTrack_get(acc, t) = None THEN ABSENT
        ELSE Canonical(acc, RGTrack_get(acc, t))

C13_SavePreservesValues ==
    [][ SaveCall =>
          \A acc \in Accessors :
             RGTrack_get(acc, disk'[TheTrack]) = RGTrack_get(acc, mem[TheTrack])
      ]_vars

\* ------------------------------------------------------------------------
\* A dry run: the tracks of the Track Set are RGTrackDryRun objects
\* ------------------------------------------------------------------------
\* track_set.save() called on its own
SetSave ==
    LET saved == RGTrackSet_save(mem, disk)
    IN  /\ mem' = saved.mem
        /\ disk' = saved.disk
        /\ last' = [outcome |-> "saved", a |-> 0]
        /\ UNCHANGED <<members, gain_type, album, dirfiles, dry, tracks,
                       track_sets, made>>
        /\ UNCHANGED batch_vars

\* track.cleanup_tags() called on member f
MemberCleanup(f) ==
    LET cleaned == IF dry THEN RGTrackDryRun_cleanup_tags(mem[f], disk[f])
                   ELSE RGTrack_cleanup_tags(mem[f], disk[f])
    IN  /\ mem' = [mem EXCEPT ![f] = cleaned.mem]
        /\ disk' = [disk EXCEPT ![f] = cleaned.disk]
        /\ last' = [outcome |-> "cleaned", a |-> 0]
        /\ UNCHANGED <<members, gain_type, album, dirfiles, dry, tracks,
                       track_sets, made>>
        /\ UNCHANGED batch_vars

\* the tags a file can hold before a dry run: none, valid ones with either
\* album value, and the ones with a bare number and legacy spellings
DryRunTags ==
    {t \in InitialTags :
        /\ t[TG] # Junk /\ t[AG] # Junk
        /\ (t[TP] = ABSENT) = (t[TG] = ABSENT)
        /\ (t[AP] = ABSENT) = (t[TG] = ABSENT)}

\* main() with dry_run: track_constructor is RGTrackDryRun
InitDry ==
    /\ members \in {1..n : n \in 1..MaxTracks}
    /\ disk \in [Files -> DryRunTags \cup {NoTags}]
    /\ \A f \in Files : disk[f] = NoTags <=> f \notin members
    /\ mem = disk
    /\ gain_type = "auto"
    /\ \E d \in Directories : album = d[1] /\ dirfiles = d[2]
    /\ dry = TRUE
    /\ last = [outcome |-> "none", a |-> 0]
    /\ tracks = <<>>
    /\ track_sets = <<>>
    /\ made = FALSE
    /\ NoBatch

NextDry ==
    \/ DoGain
    \/ NewPass
    \/ SetSave
    \/ \E f \in members : MemberCleanup(f)

SpecDry == InitDry /\ [][NextDry]_vars

\* C14: with RGTrackDryRun tracks no do_gain, save or cleanup_tags call
\* changes the stored tags of any file; only the in-memory tags change.
C14_DryRunKeepsStored ==
    [][ dry => disk' = disk ]_vars

\* in a dry run a set without tags was analysed and then saved: the
\* in-memory tags hold the computed track gain, the file still holds none
C14_Witness ==
    /\ dry
    /\ last.outcome = "saved"
    /\ \A f \in members :
          /\ disk[f][TG] = ABSENT
          /\ mem[f][TG] = TrackGainText(0, f)
          /\ mem[f][AG] = AlbumGainText(0, f)

\* ------------------------------------------------------------------------
\* main(): a batch of Track Sets handled one after the other or in parallel
\* ------------------------------------------------------------------------
MaxJobs == 2        \* largest number of parallel jobs

\* the files main() finds: two albums of two tracks in one directory and a
\* single track in another directory
BatchTracks ==
    << [filename |-> 1, directory |-> 1, album |-> 1, supported |-> TRUE],
       [filename |-> 2, directory |-> 1, album |-> 1, supported |-> TRUE],
       [filename |-> 3, directory |-> 1, album |-> 2, supported |-> TRUE],
       [filename |-> 4, directory |-> 1, album |-> 2, supported |-> TRUE],
       [filename |-> 5, directory |-> 2, album |-> 1, supported |-> TRUE] >>

BatchFiles == {BatchTracks[i].filename : i \in DOMAIN BatchTracks}

\* the tags of the files when main() starts: the first album and the single
\* track are new and hold no ReplayGain tags, the second album is new as
\* well or was analysed in an earlier run
NewFileTags == Tags(ABSENT, ABSENT, ABSENT, ABSENT, ABSENT, ABSENT)
AnalysedFileTags == Tags(OldGain, OldPeak, AlbumX, PeakX, ABSENT, ABSENT)
BatchTags ==
    {[f \in BatchFiles |-> IF BatchTracks[f].album = 2 THEN t ELSE NewFileTags]
        : t \in {NewFileTags, AnalysedFileTags}}

TrackSets == DOMAIN track_sets

\* the file names, the album title and the directory listing of Track Set s
TrackSetFiles(s) == {tr.filename : tr \in track_sets[s].RGTracks}

TrackSetAlbum(s) ==
    LET tr == CHOOSE tr \in track_sets[s].RGTracks : TRUE
    IN  IF tr.album = 0 THEN "" ELSE "Album"

TrackSetDirfiles(s) == {"cover.jpg"}

\* RGTrackSet.filenames: the sorted file names of the members
RGTrackSet_filenames ==
    [k \in 1..Cardinality(members) |->
        CHOOSE f \in members : Cardinality({g \in members : g < f}) = k - 1]

\* the Track Sets that have been dispatched and are not finished
InFlightStates == {"started", "saving"}
InFlight(s) == proc[s].st \in InFlightStates

\* the sequential path is taken
Sequential == orchestrator.jobs <= 1

\* the process of Track Set s is the one that runs
Focus(s) ==
    /\ members' = TrackSetFiles(s)
    /\ album' = TrackSetAlbum(s)
    /\ dirfiles' = TrackSetDirfiles(s)
    /\ gain_type' = IF proc[s].st \in {"pending", "started"}
                    THEN track_sets[s].gain_type
                    ELSE orchestrator.gain_type

\* the scheduler lets the process of Track Set s run, or, when nothing is in
\* flight, looks at a handled Track Set
Schedule(s) ==
    /\ s # sched.cur
    /\ proc[s].st # "pending"
    /\ IF \E o \in TrackSets : InFlight(o)
       THEN InFlight(s) /\ (sched.stepped \/ ~ InFlight(sched.cur))
       ELSE TRUE
    /\ Focus(s)
    /\ sched' = [cur |-> s, stepped |-> FALSE]
    /\ UNCHANGED <<disk, mem, dry, last, tracks, track_sets, made,
                   orchestrator, proc, worker, disk0>>

\* a task queue from which a task is taken and not removed
queue_after_get_keeps(queue) == queue

\* the task queue after a worker has taken its first task
queue_after_get(queue) == Tail(queue)

\* worker w takes the next Track Set: handler(track_set) is called, in the
\* parallel path in a new subprocess.  Until pool.terminate() has run the
\* pool's threads take tasks, also after the interrupt.
Dispatch(w) ==
    /\ orchestrator.state \in
          (IF Sequential THEN {"analysing"} ELSE {"analysing", "interrupted"})
    /\ worker[w] = 0
    /\ \A v \in DOMAIN worker : v < w => worker[v] # 0
    /\ orchestrator.queue # <<>>
    /\ LET s == Head(orchestrator.queue)
       IN  /\ proc' = [proc EXCEPT ![s] =
                          [st |-> "started", k |-> 0, n |-> @.n + 1]]
           /\ worker' = [worker EXCEPT ![w] = s]
           /\ orchestrator' = [orchestrator EXCEPT
                                 !.queue = queue_after_get(@)]
           /\ Focus(s)
           /\ sched' = [cur |-> s, stepped |-> FALSE]
    /\ UNCHANGED <<disk, mem, dry, last, tracks, track_sets, made, disk0>>

\* main() after Track Set s has come out of the iteration over the handled
\* Track Sets
handled_next(o, s) ==
    [o EXCEPT !.handled = @ + 1,
              !.unordered = @ \/ \E later \in TrackSets :
                                    later > s /\ proc[later].st \notin
                                       {"pending", "started", "saving"}]

\* a wrapped_handler that raises when the exit code is not 0: the exception
\* ends the iteration in main()
wrapped_handler_nonzero_exit_raises(o, s) == [o EXCEPT !.state = "failed"]

\* wrapped_handler after p.join() when the exit code is not 0: the code is
\* logged and the Track Set is returned
wrapped_handler_nonzero_exit(o, s) == handled_next(o, s)

\* the subprocess of Track Set s has exited with a code other than 0
NonzeroExit(s, st) ==
    /\ proc' = [proc EXCEPT ![s].st = st]
    /\ worker' = [w \in DOMAIN worker |-> IF worker[w] = s THEN 0 ELSE worker[w]]
    /\ orchestrator' = wrapped_handler_nonzero_exit(orchestrator, s)

\* the handling of Track Set s ends in state st: the worker is free again
\* and the Track Set is the next result of the iteration in main(), which
\* is out of order when a Track Set dispatched later has ended before
Finish(s, st, k) ==
    /\ proc' = [proc EXCEPT ![s] = [st |-> st, k |-> k, n |-> @.n]]
    /\ worker' = [w \in DOMAIN worker |-> IF worker[w] = s THEN 0 ELSE worker[w]]
    /\ orchestrator' = handled_next(orchestrator, s)

\* do_gain of the running Track Set up to the call of the backend: the set
\* is skipped, compute_gain raises (TrackSetHandler logs it), or the computed
\* values are set in memory
do_gain_compute ==
    LET s == sched.cur
        gt == orchestrator.gain_type
    IN  /\ proc[s].st = "started"
        /\ gain_type' = gt
        /\ IF do_gain_skips(orchestrator.force, gt)
           THEN Finish(s, "skipped", 0) /\ UNCHANGED mem
           ELSE \/ Finish(s, "raised", 0) /\ UNCHANGED mem
                \/ /\ mem' = do_gain_set_values(mem, gt, compute_gain(0))
                   /\ proc' = [proc EXCEPT ![s].st = "saving"]
                   /\ UNCHANGED <<worker, orchestrator>>
        /\ sched' = [sched EXCEPT !.stepped = TRUE]
        /\ UNCHANGED <<disk, members, album, dirfiles, dry, last, tracks,
                       track_sets, made, disk0>>

\* the stored tags written from the tags main() started with
written_from_snapshot(d, f, tags) == [disk0 EXCEPT ![f] = tags]

\* the stored tags d after file f has been written with tags
written(d, f, tags) == [d EXCEPT ![f] = tags]

\* RGTrackSet.save of the running Track Set, one member at a time in the
\* order of the file names: track.save() succeeds, or its first write (in
\* cleanup_tags) raises an I/O error and nothing of the member is written
do_gain_save_member ==
    LET s == sched.cur
        k == proc[s].k + 1
        f == RGTrackSet_filenames[k]
        saved == RGTrack_save(mem[f], disk[f], FileType)
    IN  /\ proc[s].st = "saving"
        /\ \/ /\ mem' = [mem EXCEPT ![f] = saved.mem]
              /\ disk' = written(disk, f, saved.disk)
              /\ IF k = Cardinality(members)
                 THEN Finish(s, "returned", k)
                 ELSE /\ proc' = [proc EXCEPT ![s].k = k]
                      /\ UNCHANGED <<worker, orchestrator>>
           \/ /\ UNCHANGED <<mem, disk>>
              /\ Finish(s, "ioerror", k - 1)
        /\ sched' = [sched EXCEPT !.stepped = TRUE]
        /\ UNCHANGED <<members, gain_type, album, dirfiles, dry, last, tracks,
                       track_sets, made, disk0>>

\* the subprocess of Track Set s exits with a code other than 0 and
\* wrapped_handler logs it
Crash(s) ==
    /\ ~ Sequential
    /\ InFlight(s)
    /\ NonzeroExit(s, "crashed")
    /\ UNCHANGED <<disk, mem, members, gain_type, album, dirfiles, dry, last,
                   tracks, track_sets, made, sched, disk0>>

\* KeyboardInterrupt in main().  In the sequential path it is raised inside
\* the handler that runs, which exits (PickleableMethodCaller).
Interrupt ==
    /\ orchestrator.state = "analysing"
    /\ orchestrator' = [orchestrator EXCEPT !.state = "interrupted"]
    /\ IF Sequential
       THEN /\ proc' = [s \in TrackSets |->
                          IF InFlight(s) THEN [proc[s] EXCEPT !.st = "killed"]
                          ELSE proc[s]]
            /\ worker' = [w \in DOMAIN worker |-> 0]
       ELSE UNCHANGED <<proc, worker>>
    /\ UNCHANGED <<disk, mem, members, gain_type, album, dirfiles, dry, last,
                   tracks, track_sets, made, sched, disk0>>

\* the interrupt also reaches the subprocess of Track Set s, which exits
\* with code 1 (PickleableMethodCaller)
ChildInterrupt(s) ==
    /\ ~ Sequential
    /\ orchestrator.state \in {"interrupted", "terminated"}
    /\ InFlight(s)
    /\ NonzeroExit(s, "killed")
    /\ UNCHANGED <<disk, mem, members, gain_type, album, dirfiles, dry, last,
                   tracks, track_sets, made, sched, disk0>>

\* main() handles the KeyboardInterrupt: pool.terminate() empties the task
\* queue; the subprocesses that run are not touched
PoolTerminate ==
    /\ ~ Sequential
    /\ orchestrator.state = "interrupted"
    /\ orchestrator' = [orchestrator EXCEPT !.state = "terminated",
                                            !.queue = <<>>]
    /\ UNCHANGED <<disk, mem, members, gain_type, album, dirfiles, dry, last,
                   tracks, track_sets, made, proc, worker, sched, disk0>>

\* the iteration over the handled Track Sets ends: "Analysis complete."
Complete ==
    /\ orchestrator.state = "analysing"
    /\ orchestrator.handled = Len(track_sets)
    /\ orchestrator' = [orchestrator EXCEPT !.state = "complete"]
    /\ UNCHANGED <<disk, mem, members, gain_type, album, dirfiles, dry, last,
                   tracks, track_sets, made, proc, worker, sched, disk0>>

\* the gain types and the force_reanalyze flag the model passes to main()
CliGainTypes == {"auto", "track"}
CliForce == {FALSE}

InitBatch ==
    /\ tracks = BatchTracks
    /\ track_sets = MakeTrackSets(BatchTracks)
    /\ made = TRUE
    /\ disk \in BatchTags
    /\ mem = disk
    /\ disk0 = disk
    /\ dry = FALSE
    /\ last = [outcome |-> "none", a |-> 0]
    /\ \E jobs \in 1..MaxJobs, force \in CliForce, gt \in CliGainTypes :
          /\ jobs <= Len(track_sets)
          /\ orchestrator = [state |-> "analysing", jobs |-> jobs,
                             force |-> force, gain_type |-> gt,
                             queue |-> [s \in TrackSets |-> s],
                             handled |-> 0, unordered |-> FALSE]
          /\ worker = [w \in 1..jobs |-> 0]
    /\ proc = [s \in TrackSets |-> [st |-> "pending", k |-> 0, n |-> 0]]
    /\ sched = [cur |-> 1, stepped |-> FALSE]
    /\ members = TrackSetFiles(1)
    /\ album = TrackSetAlbum(1)
    /\ dirfiles = TrackSetDirfiles(1)
    /\ gain_type = track_sets[1].gain_type

\* the steps that main(), its workers and their subprocesses take by
\* themselves
Progress ==
    \/ \E w \in DOMAIN worker : Dispatch(w)
    \/ do_gain_compute
    \/ do_gain_save_member
    \/ \E s \in TrackSets : InFlight(s) /\ Schedule(s)
    \/ Complete

NextBatch ==
    \/ \E w \in DOMAIN worker : Dispatch(w)
    \/ do_gain_compute
    \/ do_gain_save_member
    \/ \E s \in TrackSets : Schedule(s)
    \/ \E s \in TrackSets : Crash(s)
    \/ Interrupt
    \/ \E s \in TrackSets : ChildInterrupt(s)
    \/ PoolTerminate
    \/ Complete

SpecBatch == InitBatch /\ [][NextBatch]_vars

\* a run with the default gain type over a library whose second album was
\* analysed by an earlier run
InitBatchFair ==
    /\ InitBatch
    /\ orchestrator.gain_type = "auto"
    /\ \A f \in BatchFiles :
          disk[f] = IF BatchTracks[f].album = 2 THEN AnalysedFileTags
                    ELSE NewFileTags

\* every process that can run does run at some time
SpecBatchFair == InitBatchFair /\ [][NextBatch]_vars /\ WF_vars(Progress)

\* ------------------------------------------------------------------------
\* Properties of main()
\* ------------------------------------------------------------------------
\* the handling of Track Set s has ended
Finished(s) ==
    proc[s].st \in {"skipped", "raised", "returned", "ioerror", "crashed",
                    "killed"}

\* do_gain on the Track Set in view would skip it, given the tags main()
\* started with
SkippedFromStart ==
    has_valid_rgdata(disk0, orchestrator.gain_type) /\ ~ orchestrator.force

\* the stored tags a do_gain call on the Track Set in view, alone and not
\* disturbed, leaves when it analyses the tags main() started with
AnalysedAlone ==
    RGTrackSet_save(
        do_gain_set_values(disk0, orchestrator.gain_type, compute_gain(0)),
        disk0).disk

\* C15: when compute_gain raised for one Track Set of the batch and the run
\* is complete, the files of that Track Set hold the tags they started with
\* and the files of every Track Set that was analysed hold the canonical
\* texts of their computed values (album values when album gain is wanted,
\* none otherwise).
C15_FailureIsolated ==
    (orchestrator.state = "complete"
        /\ \E a \in TrackSets : proc[a].st = "raised") =>
       /\ \A s \in TrackSets : Finished(s)
       /\ proc[sched.cur].st = "raised" =>
             \A f \in members : disk[f] = disk0[f]
       /\ proc[sched.cur].st = "returned" =>
             \A f \in members :
                /\ disk[f][TG] = TrackGainText(0, f)
                /\ disk[f][TP] = TrackPeakText(0, f)
                /\ disk[f][AG] = IF want_album_gain(orchestrator.gain_type)
                                 THEN AlbumGainText(0, f) ELSE ABSENT
                /\ disk[f][AP] = IF want_album_gain(orchestrator.gain_type)
                                 THEN AlbumPeakText(0, f) ELSE ABSENT

\* C16: the tag writes of a Track Set are all-or-nothing: when do_gain ended
\* with an error no member's stored tags have changed, and when it returned
\* every member holds the new tags.
C16_AllOrNothing ==
    /\ proc[sched.cur].st \in {"raised", "ioerror"} =>
          \A f \in members : disk[f] = disk0[f]
    /\ proc[sched.cur].st = "returned" =>
          \A f \in members : disk[f] = AnalysedAlone[f]

\* C17: no two workers handle the same Track Set at the same time, no Track
\* Set is dispatched more than once, the Track Sets share no file, and a
\* file is only written by the process of the one Track Set it belongs to,
\* while a worker handles that Track Set.
C17_OneWorkerPerSet ==
    /\ [] /\ \A v, w \in DOMAIN worker :
                (v # w /\ worker[v] # 0) => worker[v] # worker[w]
          /\ \A s \in TrackSets : proc[s].n <= 1
          /\ \A s \in TrackSets :
                (~ Sequential \/ orchestrator.state = "analysing") =>
                   (InFlight(s) <=> \E w \in DOMAIN worker : worker[w] = s)
          /\ \A s, o \in TrackSets :
                s # o => TrackSetFiles(s) \cap TrackSetFiles(o) = {}
    /\ [][ \A f \in BatchFiles :
              disk'[f] # disk[f] =>
                 /\ f \in TrackSetFiles(sched.cur)
                 /\ InFlight(sched.cur)
                 /\ \E w \in DOMAIN worker : worker[w] = sched.cur
         ]_vars

\* two workers handle the two albums at the same time and each has saved
\* its first member
C17_Witness ==
    /\ ~ Sequential
    /\ \E v, w \in DOMAIN worker :
          /\ worker[v] = 1 /\ worker[w] = 2
          /\ proc[1].st = "saving" /\ proc[1].k = 1
          /\ proc[2].st = "saving" /\ proc[2].k = 1
    /\ disk[1] # disk0[1]
    /\ disk[3] # disk0[3]

\* C18: the exit of a subprocess with a code other than 0 marks its Track
\* Set as failed and changes nothing else: no other Track Set's handling, no
\* file and not the state of the run; and unless an interrupt arrives, the
\* run then goes on until every Track Set is handled and it is complete.
C18_CrashDoesNotStopRun ==
    /\ [][ \A s \in TrackSets :
              (proc'[s].st = "crashed" /\ proc[s].st # "crashed") =>
                 /\ \A o \in TrackSets \ {s} : proc'[o] = proc[o]
                 /\ disk' = disk
                 /\ orchestrator'.state = orchestrator.state
                 /\ orchestrator'.queue = orchestrator.queue
         ]_vars
    /\ [] (orchestrator.state = "complete" => \A s \in TrackSets : Finished(s))
    /\ (\E s \in TrackSets : proc[s].st = "crashed")
          ~> (orchestrator.state \in {"complete", "interrupted", "terminated"})

\* the subprocess of the first album crashed, the second album was skipped,
\* the single track was analysed and the run is complete
C18_Witness ==
    /\ orchestrator.state = "complete"
    /\ proc[1].st = "crashed"
    /\ proc[2].st = "skipped"
    /\ proc[3].st = "returned"

\* C19: after the interrupt has reached main() no Track Set is dispatched,
\* and once main() has handled it no subprocess is left running, so that no
\* file is written any more.
C19_InterruptStops ==
    /\ [][ orchestrator.state \in {"interrupted", "terminated"} =>
              \A s \in TrackSets : proc'[s].n = proc[s].n ]_vars
    /\ [] (orchestrator.state = "terminated" =>
              \A s \in TrackSets : ~ InFlight(s))
    /\ [][ orchestrator.state = "terminated" => disk' = disk ]_vars

\* C20: when the run is complete, the stored tags of the files of a Track
\* Set depend only on the tags the run started with and on whether the
\* backend analysed the set: a skipped set and a set whose analysis raised
\* hold the tags they started with, an analysed set holds what a do_gain call
\* on it alone leaves; neither the number of jobs nor the order in which the
\* processes ran and ended changes this.
C20_OrderIndependent ==
    orchestrator.state = "complete" =>
       /\ (proc[sched.cur].st = "skipped") =>
             /\ SkippedFromStart
             /\ \A f \in members : disk[f] = disk0[f]
       /\ (proc[sched.cur].st = "raised") =>
             /\ ~ SkippedFromStart
             /\ \A f \in members : disk[f] = disk0[f]
       /\ (proc[sched.cur].st = "returned") =>
             /\ ~ SkippedFromStart
             /\ \A f \in members : disk[f] = AnalysedAlone[f]
       /\ \A f \in BatchFiles :
             (\A s \in TrackSets : f \notin TrackSetFiles(s)) =>
                disk[f] = disk0[f]

\* a parallel run is complete in which the single track was handled before
\* an album dispatched earlier, the first album was analysed and the second,
\* analysed in an earlier run, was skipped
C20_Witness ==
    /\ orchestrator.state = "complete"
    /\ orchestrator.jobs = 2
    /\ orchestrator.unordered
    /\ proc[1].st = "returned"
    /\ proc[2].st = "skipped"
    /\ proc[3].st = "returned"
    /\ sched.cur = 1
    /\ disk[1][AG] = AlbumGainText(0, 1)

\* ------------------------------------------------------------------------
\* main() as the command line runs it (rganalysis/main.py, __main__.py)
\* ------------------------------------------------------------------------
MaxRoots == 2       \* largest number of music directories on the command line
MaxFound == 2       \* largest number of Track Sets found in them

\* no Track Set is under analysis and MakeTrackSets has nothing to do
NoLibrary ==
    /\ tracks = <<>>
    /\ track_sets = <<>>
    /\ made = FALSE
    /\ members = {}
    /\ disk = [f \in Files |-> NoTags]
    /\ mem = disk
    /\ gain_type = "auto"
    /\ album = ""
    /\ dirfiles = {}
    /\ dry = FALSE
    /\ last = [outcome |-> "none", a |-> 0]

\* rganalysis.backends.known_backends
known_backends == <<"audiotools", "bs1770gain">>

\* the values of the --backend option
BackendOptions == {"auto", "audiotools", "bs1770gain"}

\* the backend selection of main() finds a backend, given the set of backends
\* whose module can be imported
backend_found(backend, installed) ==
    IF backend = "auto"
    THEN \E i \in DOMAIN known_backends : known_backends[i] \in installed
    ELSE backend \in installed

\* the process ends with the given exit code
Exit(code) ==
    orchestrator' = [orchestrator EXCEPT !.state = "exited", !.code = code]

\* main(): the backend is selected; BackendUnavailableException is not
\* caught, and the interpreter ends with code 1 on an uncaught exception
SelectBackend ==
    /\ orchestrator.state = "called"
    /\ IF backend_found(orchestrator.backend, orchestrator.installed)
       THEN orchestrator' = [orchestrator EXCEPT !.state = "backend"]
       ELSE Exit(1)
    /\ UNCHANGED <<disk, mem, members, gain_type, album, dirfiles, dry, last,
                   tracks, track_sets, made, proc, worker, sched, disk0>>

\* main(): no music directory given
CheckMusicDir ==
    /\ orchestrator.state = "backend"
    /\ IF orchestrator.music_dir = 0
       THEN Exit(1)
       ELSE orchestrator' = [orchestrator EXCEPT !.state = "searching"]
    /\ UNCHANGED <<disk, mem, members, gain_type, album, dirfiles, dry, last,
                   tracks, track_sets, made, proc, worker, sched, disk0>>

\* main(): the Track Sets are made; their number is only looked at when
\* they are put in a list, which the low_memory flag prevents
FindTrackSets ==
    /\ orchestrator.state = "searching"
    /\ IF ~ orchestrator.low_memory /\ orchestrator.found = 0
       THEN Exit(1)
       ELSE orchestrator' = [orchestrator EXCEPT !.state = "analysing"]
    /\ UNCHANGED <<disk, mem, members, gain_type, album, dirfiles, dry, last,
                   tracks, track_sets, made, proc, worker, sched, disk0>>

\* main(): the Track Sets are handled, the failures of single Track Sets are
\* logged, and main() returns; or a KeyboardInterrupt leaves main() and
\* plac_call_main exits with code 1
Analyse ==
    /\ orchestrator.state = "analysing"
    /\ \E interrupted \in BOOLEAN :
          orchestrator' = [orchestrator EXCEPT
                              !.state = "exited",
                              !.interrupted = interrupted,
                              !.code = IF interrupted THEN 1 ELSE 0]
    /\ UNCHANGED <<disk, mem, members, gain_type, album, dirfiles, dry, last,
                   tracks, track_sets, made, proc, worker, sched, disk0>>

InitCli ==
    /\ NoLibrary
    /\ \E backend \in BackendOptions,
          installed \in SUBSET {known_backends[i] : i \in DOMAIN known_backends},
          music_dir \in 0..MaxRoots, found \in 0..MaxFound,
          failed \in 0..MaxFound, low_memory \in BOOLEAN :
          /\ failed <= found
          /\ music_dir = 0 => found = 0
          /\ orchestrator = [state |-> "called", backend |-> backend,
                             installed |-> installed, music_dir |-> music_dir,
                             found |-> found, failed |-> failed,
                             low_memory |-> low_memory,
                             interrupted |-> FALSE, code |-> 0]
    /\ proc = <<>>
    /\ worker = <<>>
    /\ sched = [cur |-> 0, stepped |-> FALSE]
    /\ disk0 = <<>>

NextCli == SelectBackend \/ CheckMusicDir \/ FindTrackSets \/ Analyse

SpecCli == InitCli /\ [][NextCli]_vars

\* C21: a run that no interrupt ended exits with code 1 exactly when no
\* backend is available, no music directory was given or no Track Set was
\* found, whatever the low_memory flag; in every other case it exits with
\* code 0, also when Track Sets failed.
C21_ExitCodes ==
    (orchestrator.state = "exited" /\ ~ orchestrator.interrupted) =>
       (orchestrator.code = 1 <=>
           \/ ~ backend_found(orchestrator.backend, orchestrator.installed)
           \/ orchestrator.music_dir = 0
           \/ orchestrator.found = 0)

\* ------------------------------------------------------------------------
\* More properties of one RGTrack
\* ------------------------------------------------------------------------
\* the text is neither a number nor, for a gain, a number with the unit dB
Unparsable(acc, text) ==
    IF acc \in {"gain", "album_gain"} THEN text.form \notin {"num", "dB"}
    ELSE text.form # "num"

\* C26: each of the four getters returns None, and no error, when its tag is
\* absent or holds text that cannot be parsed; deleting a property whose tag
\* is absent changes neither the in-memory nor the stored tags.
C26_AbsentNotError ==
    /\ [] \A acc \in Accessors :
             Unparsable(acc, mem[TheTrack][TagOf(acc)]) =>
                RGTrack_get(acc, mem[TheTrack]) = None
    /\ [][ \A acc \in Accessors :
              (DelAccessor(acc) /\ mem[TheTrack][TagOf(acc)] = ABSENT) =>
                 (mem' = mem /\ disk' = disk) ]_vars

\* the album gain, absent in memory, was deleted on a track
\* whose track peak is "n/a" and whose album peak is "-4.00 dB": both peaks
\* read None
C26_Witness ==
    /\ last.outcome = "del" /\ last.acc = "album_gain"
    /\ mem[TheTrack][AG] = ABSENT
    /\ mem[TheTrack][TP] = Junk
    /\ mem[TheTrack][AP] = AlbumX
    /\ RGTrack_get("peak", mem[TheTrack]) = None
    /\ RGTrack_get("album_peak", mem[TheTrack]) = None

\* C27: after RGTrack.cleanup_tags() the in-memory tags of the track are the
\* stored tags of the file, whatever unsaved edits there were, and every
\* stored tag whose name is none of the ReplayGain spellings is as before.
C27_CleanupReloads ==
    [][ CleanupTagsCall =>
          /\ mem'[TheTrack] = disk'[TheTrack]
          /\ \A k \in TagNames :
                Lower(k) \notin tags_to_clean =>
                   disk'[TheTrack][k] = disk[TheTrack][k] ]_vars

\* cleanup_tags ran on a file with legacy spellings: no ReplayGain tag is
\* left, in the file or in memory, and the title is still there
C27_Witness ==
    /\ last.outcome = "cleaned" /\ last.legacy
    /\ mem[TheTrack] = disk[TheTrack]
    /\ \A k \in TagNames :
          disk[TheTrack][k] = IF k = TITLE THEN Junk ELSE ABSENT

\* ------------------------------------------------------------------------
\* More properties of do_gain
\* ------------------------------------------------------------------------
\* C30: after a do_gain call on a Track Set of tracks that are no dry-run
\* tracks has returned, under every gain type and from every initial tag
\* state, has_valid_rgdata() evaluated on the stored tags is true.
C30_ReturnedIsValid ==
    (Returned /\ ~ dry) => has_valid_rgdata(disk, gain_type)

\* ------------------------------------------------------------------------
\* The RGTrackSet constructor called on any list of tracks
\* ------------------------------------------------------------------------
\* RGTrackSet(tracks, gain_backend)
RGTrackSetCall ==
    /\ ~ made
    /\ track_sets' = <<RGTrackSet_init(tracks)>>
    /\ made' = TRUE
    /\ last' = [outcome |-> "constructed", a |-> 0]
    /\ UNCHANGED <<disk, mem, members, gain_type, album, dirfiles, dry,
                   tracks>>
    /\ UNCHANGED batch_vars

NextConstruct == RGTrackSetCall \/ MakeTrackSetsCall

SpecConstruct == InitGroup /\ [][NextConstruct]_vars

\* the tracks of the sequence do not all have the same key
KeysDisagree(trs) ==
    \E i, k \in DOMAIN trs :
        RGTrack_track_set_key(trs[i]) # RGTrack_track_set_key(trs[k])

\* C25: the RGTrackSet constructor fails with ValueError, and yields no
\* Track Set, exactly when it is given no track or tracks whose keys are
\* not all equal; every Track Set that exists, made by the constructor or
\* by MakeTrackSets, has at least one member and members of one key.
C25_ConstructionChecks ==
    /\ last.outcome = "constructed" =>
          (track_sets[1] = ValueError
              <=> (Len(tracks) = 0 \/ KeysDisagree(tracks)))
    /\ \A j \in DOMAIN track_sets :
          track_sets[j] # ValueError =>
             /\ track_sets[j].RGTracks # {}
             /\ \A t, u \in track_sets[j].RGTracks :
                   RGTrack_track_set_key(t) = RGTrack_track_set_key(u)

\* the constructor was given three tracks of one directory, two of one
\* album and one of another, and failed
C25_Witness ==
    /\ last.outcome = "constructed"
    /\ track_sets = <<ValueError>>
    /\ Len(tracks) = 3
    /\ \A i \in DOMAIN tracks : tracks[i].directory = 1
    /\ tracks[1].album = tracks[2].album
    /\ tracks[3].album # tracks[1].album

\* C29: when tracks of one directory are not contiguous in the input of
\* MakeTrackSets, every supported track is still a member of exactly one
\* emitted Track Set, an unsupported one of none, and every emitted Track
\* Set has members of one key; tracks of equal keys may be in different
\* Track Sets.
C29_NonContiguousInput ==
    (made /\ last.outcome = "none" /\ ~ Contiguous(tracks)) =>
        /\ \A j \in DOMAIN track_sets :
              /\ track_sets[j] # ValueError
              /\ \A t, u \in track_sets[j].RGTracks :
                    RGTrack_track_set_key(t) = RGTrack_track_set_key(u)
        /\ \A i \in DOMAIN tracks :
              Cardinality(SetsOf(tracks[i])) =
                 IF tracks[i].supported THEN 1 ELSE 0

\* two supported tracks of one key, separated by a supported track of the
\* other directory, were emitted in two different Track Sets
C29_Witness ==
    /\ made /\ last.outcome = "none" /\ ~ Contiguous(tracks)
    /\ Len(tracks) = 3 /\ Len(track_sets) = 3
    /\ \A i \in DOMAIN tracks : tracks[i].supported
    /\ RGTrack_track_set_key(tracks[1]) = RGTrack_track_set_key(tracks[3])
    /\ SetsOf(tracks[1]) \cap SetsOf(tracks[3]) = {}

\* ------------------------------------------------------------------------
\* The tag codec on its own (rganalysis/common.py)
\* ------------------------------------------------------------------------
MaxSample == 60     \* the gains and peaks tried are numbered up to this

\* gains in ticks: steps of 0.00125 dB around 0, which hit both sides of the
\* rounding step and the middle of it, steps of 0.9876543 dB up to some
\* 59 dB either way, and -6.004 dB
GainSamples ==
    {12500 * k : k \in (0 - MaxSample)..MaxSample}
    \cup {9876543 * k : k \in (0 - MaxSample)..MaxSample}
    \cup {NewGain.v}

\* peaks in ticks, all within [0, 1]: the lowest and the highest ones in
\* steps of 0.0000001, and steps of 0.0166667 in between
PeakSamples ==
    {p \in (0..MaxSample) \cup {10000000 - k : k \in 0..MaxSample}
             \cup {166667 * k : k \in 0..MaxSample} : p <= 10000000}

\* texts given to parse_gain
GainTexts ==
    {DB(g) : g \in {0 - 60000000, 0, 12300000}}
    \cup {Num(0 - 52500000, 3), Num(7, 0), Junk}

\* parse_gain(format_gain(g))
FormatParseGain(g) ==
    /\ last' = [outcome |-> "gain", a |-> 0, input |-> g,
                text |-> format_gain(g),
                result |-> parse_gain(format_gain(g))]
    /\ UNCHANGED <<disk, mem, members, gain_type, album, dirfiles, dry,
                   tracks, track_sets, made>>
    /\ UNCHANGED batch_vars

\* parse_peak(format_peak(p))
FormatParsePeak(p) ==
    /\ last' = [outcome |-> "peak", a |-> 0, input |-> p,
                text |-> format_peak(p),
                result |-> parse_peak(format_peak(p))]
    /\ UNCHANGED <<disk, mem, members, gain_type, album, dirfiles, dry,
                   tracks, track_sets, made>>
    /\ UNCHANGED batch_vars

\* parse_gain(text)
ParseGain(text) ==
    /\ last' = [outcome |-> "parsed", a |-> 0, input |-> 0, text |-> text,
                result |-> parse_gain(text)]
    /\ UNCHANGED <<disk, mem, members, gain_type, album, dirfiles, dry,
                   tracks, track_sets, made>>
    /\ UNCHANGED batch_vars

InitCodec == NoLibrary /\ NoBatch

NextCodec ==
    \/ \E g \in GainSamples : FormatParseGain(g)
    \/ \E p \in PeakSamples : FormatParsePeak(p)
    \/ \E text \in GainTexts : ParseGain(text)

SpecCodec == InitCodec /\ [][NextCodec]_vars

StepsAfter(st) ==
    CASE st = "pending" -> {"started"}
      [] st = "started" -> {"skipped", "raised", "saving", "crashed", "killed"}
      [] st = "saving" -> {"returned", "ioerror", "crashed", "killed"}
      [] OTHER -> {}

TXXX_TG == "TXXX:replaygain_track_gain"
TXXX_TP == "TXXX:replaygain_track_peak"
TXXX_AG == "TXXX:replaygain_album_gain"
TXXX_AP == "TXXX:replaygain_album_peak"
ID3Names == {"RVA2:track", "RVA2:album", TXXX_TG, TXXX_TP, TXXX_AG, TXXX_AP,
             "TIT2"}

\* an RVA2 frame: its channel (1 is the master volume), its gain and its peak
RVA2(channel, gain, peak) == [channel |-> channel, gain |-> gain, peak |-> peak]

\* the RVA2 frames a file can hold under one name: none, or a frame of the
\* master channel or of channel 0 with a gain of -6.004 dB or 1.2345678 dB
RVA2Frames ==
    {ABSENT} \cup {RVA2(c, g, 9000004) : c \in {0, 1},
                                        g \in {0 - 60040000, 12345678}}

\* the frames of the file before fixup_ID3: the track TXXX frames and the
\* album TXXX frames are there with older texts, or are not there
ID3Tags ==
    {[k \in ID3Names |->
        CASE k = "RVA2:track" -> tf
          [] k = "RVA2:album" -> af
          [] k = TXXX_TG -> IF tt THEN OldGain ELSE ABSENT
          [] k = TXXX_TP -> IF tt THEN OldPeak ELSE ABSENT
          [] k = TXXX_AG -> IF at THEN AlbumX ELSE ABSENT
          [] k = TXXX_AP -> IF at THEN PeakX ELSE ABSENT
          [] OTHER -> Junk]
      : tf \in RVA2Frames, af \in RVA2Frames, tt \in BOOLEAN, at \in BOOLEAN}

\* fixup_ID3(fname) on the file of the track
FixupCall ==
    /\ disk' = [disk EXCEPT
                   ![TheTrack] = fixup_ID3(last.ftype, disk[TheTrack])]
    /\ last' = [outcome |-> "fixed", a |-> 0, ftype |-> last.ftype,
                before |-> disk[TheTrack]]
    /\ UNCHANGED <<mem, members, gain_type, album, dirfiles, dry, tracks,
                   track_sets, made>>
    /\ UNCHANGED batch_vars

InitFixup ==
    /\ members = {TheTrack}
    /\ \E tags \in ID3Tags :
          disk = [f \in Files |-> IF f = TheTrack THEN tags ELSE NoTags]
    /\ mem = disk
    /\ gain_type = "auto"
    /\ album = "Album"
    /\ dirfiles = {}
    /\ dry = FALSE
    /\ \E ftype \in {ID3Type, FileType} :
          last = [outcome |-> "none", a |-> 0, ftype |-> ftype,
                  before |-> disk[TheTrack]]
    /\ tracks = <<>>
    /\ track_sets = <<>>
    /\ made = FALSE
    /\ NoBatch

SpecFixup == InitFixup /\ [][FixupCall]_vars

\* the frame is an RVA2 frame of the master channel
Honoured(frame) == frame # ABSENT /\ frame.channel = 1

\* C22: after fixup_ID3 on an ID3 file, when the file held an RVA2 track
\* frame of channel 1 the TXXX track gain and peak are the canonical texts
\* of the frame's gain and peak, and likewise for the album frame; when the
\* frame is missing or of another channel the TXXX frames of that kind are
\* as they were, so that none is written.
C22_FramesToFreeText ==
    (last.outcome = "fixed" /\ last.ftype = ID3Type) =>
       LET b == last.before
           d == disk[TheTrack]
       IN  /\ IF Honoured(b["RVA2:track"])
              THEN /\ d[TXXX_TG] = format_gain(b["RVA2:track"].gain)
                   /\ d[TXXX_TP] = format_peak(b["RVA2:track"].peak)
              ELSE /\ d[TXXX_TG] = b[TXXX_TG]
                   /\ d[TXXX_TP] = b[TXXX_TP]
           /\ IF Honoured(b["RVA2:album"])
              THEN /\ d[TXXX_AG] = format_gain(b["RVA2:album"].gain)
                   /\ d[TXXX_AP] = format_peak(b["RVA2:album"].peak)
              ELSE /\ d[TXXX_AG] = b[TXXX_AG]
                   /\ d[TXXX_AP] = b[TXXX_AP]

\* an ID3 file without TXXX frames, with a track frame of channel 1 and
\* -6.004 dB and an album frame of channel 0, was fixed up: the track TXXX
\* frames hold "-6.00 dB" and "0.900000", the album TXXX frames do not exist
C22_Witness ==
    /\ last.outcome = "fixed" /\ last.ftype = ID3Type
    /\ last.before["RVA2:track"] = RVA2(1, 0 - 60040000, 9000004)
    /\ last.before["RVA2:album"] = RVA2(0, 12345678, 9000004)
    /\ last.before[TXXX_TG] = ABSENT /\ last.before[TXXX_AG] = ABSENT
    /\ disk[TheTrack][TXXX_TG] = DB(0 - 60000000)
    /\ disk[TheTrack][TXXX_TP] = Num(9000000, 6)
    /\ disk[TheTrack][TXXX_AG] = ABSENT
    /\ disk[TheTrack][TXXX_AP] = ABSENT

\* C23: fixup_ID3 leaves the RVA2 frames as they are, whatever the TXXX
\* frames hold, and changes no tag of a file that is no ID3 file.
C23_FramesUntouched ==
    [][ FixupCall =>
          /\ \A k \in {"RVA2:track", "RVA2:album"} :
                disk'[TheTrack][k] = disk[TheTrack][k]
          /\ last.ftype # ID3Type => disk' = disk ]_vars

\* an ID3 file with TXXX frames, with an album frame of channel 1 and no
\* track frame, was fixed up: there still is no track frame, the album
\* frame is the same and the track TXXX frames hold their older texts
C23_Witness ==
    /\ last.outcome = "fixed" /\ last.ftype = ID3Type
    /\ last.before["RVA2:track"] = ABSENT
    /\ last.before[TXXX_TG] = OldGain
    /\ disk[TheTrack]["RVA2:track"] = ABSENT
    /\ disk[TheTrack]["RVA2:album"] = RVA2(1, 12345678, 9000004)
    /\ disk[TheTrack][TXXX_TG] = OldGain
    /\ disk[TheTrack][TXXX_AG] = DB(12300000)

====
